---- MODULE Spec2Model ----
(***************************************************************************)
(* The DNS wire-format codec of bkdns (src/src/packet.rs): the flags       *)
(* bitfield, the 12-byte header, the label encoding of names, questions    *)
(* and the packet assembler.                                               *)
(*                                                                         *)
(* Values: a byte is an integer 0..255, a u16 an integer 0..65535, a byte  *)
(* vector a sequence of bytes, a Rust String a sequence of Unicode scalar  *)
(* values (code points), a struct a record with the struct's field names,  *)
(* a Result a record Ok(v) or Err(e).                                      *)
(***************************************************************************)
EXTENDS Integers, Sequences, FiniteSets, TLC

VARIABLES
    packet,     \* the DNSPacket under construction: [header, questions]
    status,     \* "running", or "panicked" once an arithmetic overflow aborted a call
    sent,       \* the last call of DNSPacket::serialize, if any: <<[of, bytes]>>
    received,   \* the call of DNSPacket::deserialize, if any: <<[input, result]>>
    origin,     \* codec harness: what the input drawn by Init was ("value" or "code")
    values,     \* codec harness: the decoded values, input first, in the order produced
    codes       \* codec harness: the encoded forms, input first, in the order produced

vars == <<packet, status, sent, received, origin, values, codes>>

----------------------------------------------------------------------------
(* Machine integers.                                                       *)

U8_MAX == 255
U16_MAX == 65535

\* x as u8 / x as u16: the truncating casts.
AsU8(x) == x % (U8_MAX + 1)
AsU16(x) == x % (U16_MAX + 1)

\* bool as u16
BoolAsU16(b) == IF b THEN 1 ELSE 0

RECURSIVE BitAnd(_, _)
\* a & b
BitAnd(a, b) ==
    IF a = 0 \/ b = 0 THEN 0
    ELSE (a % 2) * (b % 2) + 2 * BitAnd(a \div 2, b \div 2)

RECURSIVE BitOr(_, _)
\* a | b
BitOr(a, b) ==
    IF a = 0 THEN b
    ELSE IF b = 0 THEN a
    ELSE (IF a % 2 = 1 \/ b % 2 = 1 THEN 1 ELSE 0) + 2 * BitOr(a \div 2, b \div 2)

\* (x: u16) << k, for k < 16: bits shifted past bit 15 are dropped.
Shl16(x, k) == AsU16(x * 2^k)

\* (x: u16) >> k
Shr16(x, k) == x \div 2^k

\* u16::to_be_bytes
to_be_bytes(x) == << x \div 256, x % 256 >>

\* u16::from_be_bytes of a two-byte slice
from_be_bytes(b) == b[1] * 256 + b[2]

\* Result<T, String>
Ok(v) == [ok |-> TRUE, value |-> v]
Err(e) == [ok |-> FALSE, error |-> e]

----------------------------------------------------------------------------
(* Flags codec: DNSFlags.                                                  *)

DNSFlags_default ==
    [ is_response |-> FALSE, opcode |-> 0, is_authoritative |-> FALSE,
      is_truncated |-> FALSE, recurse_desired |-> FALSE,
      recurse_available |-> FALSE, answer_authed |-> FALSE,
      unauth_ok |-> FALSE, reply_code |-> 0 ]

\* DNSFlags::serialize without the 4-bit mask on opcode and reply_code.
DNSFlags_serialize_unmasked(self) ==
    LET f0 == 0
        f1 == BitOr(f0, Shl16(BoolAsU16(self.is_response), 15))
        f2 == BitOr(f1, Shl16(self.opcode, 11))
        f3 == BitOr(f2, Shl16(BoolAsU16(self.is_authoritative), 10))
        f4 == BitOr(f3, Shl16(BoolAsU16(self.is_truncated), 9))
        f5 == BitOr(f4, Shl16(BoolAsU16(self.recurse_desired), 8))
        f6 == BitOr(f5, Shl16(BoolAsU16(self.recurse_available), 7))
        f7 == BitOr(f6, Shl16(BoolAsU16(self.answer_authed), 5))
        f8 == BitOr(f7, Shl16(BoolAsU16(self.unauth_ok), 4))
        f9 == BitOr(f8, self.reply_code)
    IN  f9

\* DNSFlags::serialize with recurse_available one bit too low, on the reserved bit.
DNSFlags_serialize_ra_at_6(self) ==
    LET f0 == 0
        f1 == BitOr(f0, Shl16(BoolAsU16(self.is_response), 15))
        f2 == BitOr(f1, Shl16(BitAnd(self.opcode, 15), 11))
        f3 == BitOr(f2, Shl16(BoolAsU16(self.is_authoritative), 10))
        f4 == BitOr(f3, Shl16(BoolAsU16(self.is_truncated), 9))
        f5 == BitOr(f4, Shl16(BoolAsU16(self.recurse_desired), 8))
        f6 == BitOr(f5, Shl16(BoolAsU16(self.recurse_available), 6))
        f7 == BitOr(f6, Shl16(BoolAsU16(self.answer_authed), 5))
        f8 == BitOr(f7, Shl16(BoolAsU16(self.unauth_ok), 4))
        f9 == BitOr(f8, BitAnd(self.reply_code, 15))
    IN  f9

DNSFlags_serialize(self) ==
    LET f0 == 0
        f1 == BitOr(f0, Shl16(BoolAsU16(self.is_response), 15))
        f2 == BitOr(f1, Shl16(BitAnd(self.opcode, 15), 11))
        f3 == BitOr(f2, Shl16(BoolAsU16(self.is_authoritative), 10))
        f4 == BitOr(f3, Shl16(BoolAsU16(self.is_truncated), 9))
        f5 == BitOr(f4, Shl16(BoolAsU16(self.recurse_desired), 8))
        f6 == BitOr(f5, Shl16(BoolAsU16(self.recurse_available), 7))
        f7 == BitOr(f6, Shl16(BoolAsU16(self.answer_authed), 5))
        f8 == BitOr(f7, Shl16(BoolAsU16(self.unauth_ok), 4))
        f9 == BitOr(f8, BitAnd(self.reply_code, 15))
    IN  f9

\* DNSFlags::from with the opcode mask 0x7000 in place of 0x7800.
DNSFlags_from_narrow_opcode(uint16) ==
    [ is_response       |-> BitAnd(uint16, 32768) > 0,
      opcode            |-> AsU8(Shr16(BitAnd(uint16, 28672), 11)),
      is_authoritative  |-> BitAnd(uint16, 1024) > 0,
      is_truncated      |-> BitAnd(uint16, 512) > 0,
      recurse_desired   |-> BitAnd(uint16, 256) > 0,
      recurse_available |-> BitAnd(uint16, 128) > 0,
      answer_authed     |-> BitAnd(uint16, 32) > 0,
      unauth_ok         |-> BitAnd(uint16, 16) > 0,
      reply_code        |-> AsU8(BitAnd(uint16, 15)) ]

DNSFlags_from(uint16) ==
    [ is_response       |-> BitAnd(uint16, 32768) > 0,
      opcode            |-> AsU8(Shr16(BitAnd(uint16, 30720), 11)),
      is_authoritative  |-> BitAnd(uint16, 1024) > 0,
      is_truncated      |-> BitAnd(uint16, 512) > 0,
      recurse_desired   |-> BitAnd(uint16, 256) > 0,
      recurse_available |-> BitAnd(uint16, 128) > 0,
      answer_authed     |-> BitAnd(uint16, 32) > 0,
      unauth_ok         |-> BitAnd(uint16, 16) > 0,
      reply_code        |-> AsU8(BitAnd(uint16, 15)) ]

----------------------------------------------------------------------------
(* Header codec: DNSHeader.                                                *)

\* std::mem::size_of::<u16>() * 6
HEADER_SIZE == 2 * 6

DNSHeader(id, flags, qc, ac, auc, adc) ==
    [ id |-> id, flags |-> flags, question_count |-> qc, answer_count |-> ac,
      authority_count |-> auc, additional_count |-> adc ]

\* DNSHeader::serialize with authority_count and additional_count written in
\* each other's place.
DNSHeader_serialize_swapped(self) ==
    to_be_bytes(self.id)
        \o to_be_bytes(DNSFlags_serialize(self.flags))
        \o to_be_bytes(self.question_count)
        \o to_be_bytes(self.answer_count)
        \o to_be_bytes(self.additional_count)
        \o to_be_bytes(self.authority_count)

DNSHeader_serialize(self) ==
    to_be_bytes(self.id)
        \o to_be_bytes(DNSFlags_serialize(self.flags))
        \o to_be_bytes(self.question_count)
        \o to_be_bytes(self.answer_count)
        \o to_be_bytes(self.authority_count)
        \o to_be_bytes(self.additional_count)

\* format!("Failed to parse header. Expected {} bytes, got: {}", expected, got)
ShortHeaderError(expected, got) ==
    [ text |-> "Failed to parse header. Expected {} bytes, got: {}",
      args |-> <<expected, got>> ]

\* DNSHeader::deserialize rejecting HEADER_SIZE bytes too (<= for <).
DNSHeader_deserialize_off_by_one(bytes) ==
    IF Len(bytes) <= HEADER_SIZE
    THEN Err(ShortHeaderError(HEADER_SIZE, Len(bytes)))
    ELSE Ok(DNSHeader(
            from_be_bytes(SubSeq(bytes, 1, 2)),
            DNSFlags_from(from_be_bytes(SubSeq(bytes, 3, 4))),
            from_be_bytes(SubSeq(bytes, 5, 6)),
            from_be_bytes(SubSeq(bytes, 7, 8)),
            from_be_bytes(SubSeq(bytes, 9, 10)),
            from_be_bytes(SubSeq(bytes, 11, 12))))

\* The slice bytes[a..b] is SubSeq(bytes, a + 1, b).
DNSHeader_deserialize(bytes) ==
    IF Len(bytes) < HEADER_SIZE
    THEN Err(ShortHeaderError(HEADER_SIZE, Len(bytes)))
    ELSE Ok(DNSHeader(
            from_be_bytes(SubSeq(bytes, 1, 2)),
            DNSFlags_from(from_be_bytes(SubSeq(bytes, 3, 4))),
            from_be_bytes(SubSeq(bytes, 5, 6)),
            from_be_bytes(SubSeq(bytes, 7, 8)),
            from_be_bytes(SubSeq(bytes, 9, 10)),
            from_be_bytes(SubSeq(bytes, 11, 12))))

----------------------------------------------------------------------------
(* Label codec: serialize_dns_str.  A &str is the sequence of its chars.   *)

\* The '.' the name is split on.
DOT == 46

\* char::len_utf8: the bytes a char takes in the UTF-8 of a str.
len_utf8(chr) ==
    IF chr < 128 THEN 1 ELSE IF chr < 2048 THEN 2 ELSE IF chr < 65536 THEN 3 ELSE 4

\* str::len: the length in bytes, the sum of len_utf8 over the chars.
str_len(str) ==
    LET of_len(n) == Cardinality({ i \in 1..Len(str) : len_utf8(str[i]) = n })
    IN  of_len(1) + 2 * of_len(2) + 3 * of_len(3) + 4 * of_len(4)

\* The positions of the dots of str, and the k-th of them from the left (0
\* before the first, Len(str) + 1 after the last).
dots(str) == { i \in 1..Len(str) : str[i] = DOT }
nth_dot(str, k) ==
    IF k = 0 THEN 0
    ELSE IF k > Cardinality(dots(str)) THEN Len(str) + 1
    ELSE CHOOSE i \in dots(str) : Cardinality({ j \in dots(str) : j <= i }) = k

\* str::split("."): the parts between the dots, one more than there are dots.
split(str) ==
    [ k \in 1..(Cardinality(dots(str)) + 1) |->
        SubSeq(str, nth_dot(str, k - 1) + 1, nth_dot(str, k) - 1) ]

\* char::to_ascii_lowercase that leaves every char as it is.
to_ascii_lowercase_identity(chr) == chr

\* char::to_ascii_lowercase: 'A'..='Z' to 'a'..='z', every other char unchanged.
to_ascii_lowercase(chr) == IF chr >= 65 /\ chr <= 90 THEN chr + 32 ELSE chr

\* for chr in part.chars() { bytes.push(chr.to_ascii_lowercase() as u8) }
push_chars(bytes, part) ==
    bytes \o [ j \in 1..Len(part) |-> AsU8(to_ascii_lowercase(part[j])) ]

RECURSIVE push_parts(_, _, _)
\* for part in parts.iter() { bytes.push(part.len() as u8); ... }
push_parts(bytes, parts, i) ==
    IF i > Len(parts) THEN bytes
    ELSE push_parts(push_chars(Append(bytes, AsU8(str_len(parts[i]))), parts[i]),
                    parts, i + 1)

\* serialize_dns_str that pushes no null terminator.
serialize_dns_str_no_terminator(dns_str) == push_parts(<<>>, split(dns_str), 1)

serialize_dns_str(dns_str) == Append(push_parts(<<>>, split(dns_str), 1), 0)

----------------------------------------------------------------------------
(* Question codec: RecordType and DNSQuestion.                             *)

\* Record Class will always be Internet/IN/1
RECORD_CLASS == 1

RecordType == {"A", "NS", "CNAME", "SOA", "PTR", "MX", "TXT"}

RecordType_value(self) ==
    CASE self = "A" -> 1
      [] self = "NS" -> 2
      [] self = "CNAME" -> 5
      [] self = "SOA" -> 6
      [] self = "PTR" -> 12
      [] self = "MX" -> 15
      [] self = "TXT" -> 16

DNSQuestion_new(name, qtype) == [name |-> name, qtype |-> qtype]

DNSQuestion_serialize(self) ==
    LET name_bytes == serialize_dns_str(self.name)
    IN  name_bytes
            \o to_be_bytes(RecordType_value(self.qtype))
            \o to_be_bytes(RECORD_CLASS)

----------------------------------------------------------------------------
(* Packet assembler: DNSPacket.                                            *)

RECURSIVE extend_questions(_, _, _)
\* for question in self.questions.iter() { bytes.extend_from_slice(...) }
extend_questions(bytes, questions, i) ==
    IF i > Len(questions) THEN bytes
    ELSE extend_questions(bytes \o DNSQuestion_serialize(questions[i]), questions, i + 1)

DNSPacket(header, questions) == [ header |-> header, questions |-> questions ]

\* DNSPacket::new, id being the value rand::random::<u16>() returned.
DNSPacket_new(id) ==
    DNSPacket(DNSHeader(id, DNSFlags_default, 0, 0, 0, 0), <<>>)

\* DNSPacket::add_question: the packet and the status the call can end in.
\* The question is pushed first; then question_count += 1 on a u16, which at
\* 65535 wraps to 0 (a build without overflow checks) or panics (a build with
\* them, question_count left as it was).
add_question_outcomes(self, question) ==
    LET pushed == [self EXCEPT !.questions = Append(@, question)]
    IN  IF self.header.question_count + 1 <= U16_MAX
        THEN { [ packet |-> [pushed EXCEPT !.header.question_count = @ + 1],
                 status |-> "running" ] }
        ELSE { [ packet |-> [pushed EXCEPT !.header.question_count = AsU16(@ + 1)],
                 status |-> "running" ],
               [ packet |-> pushed, status |-> "panicked" ] }

\* DNSPacket::serialize that extends with the questions last to first.
DNSPacket_serialize_reversed(self) ==
    extend_questions(DNSHeader_serialize(self.header),
                     [ i \in 1..Len(self.questions) |->
                         self.questions[Len(self.questions) + 1 - i] ], 1)

DNSPacket_serialize(self) ==
    extend_questions(DNSHeader_serialize(self.header), self.questions, 1)

\* String::from("Packet size is too small. Expected: Header")
ShortPacketError == [ text |-> "Packet size is too small. Expected: Header", args |-> <<>> ]

\* DNSPacket::deserialize; the ? hands on the Err of DNSHeader::deserialize.
DNSPacket_deserialize(bytes) ==
    LET read_count == 0
    IN  IF read_count + Len(bytes) < HEADER_SIZE
        THEN Err(ShortPacketError)
        ELSE LET header == DNSHeader_deserialize(SubSeq(bytes, read_count + 1, HEADER_SIZE))
             IN  IF ~header.ok THEN header
                 ELSE Ok(DNSPacket(header.value, <<>>))

----------------------------------------------------------------------------
(* Bounds and input sets.                                                  *)

\* Most questions added to a packet made by new().
MaxQuestions == 3

\* Values rand::random::<u16>() returns for the id of a new packet.
PacketIds == {4884, 65535}

\* "a.Z" A, "" TXT, "A" PTR.
QuestionInputs ==
    { DNSQuestion_new(<<97, 46, 90>>, "A"),
      DNSQuestion_new(<<>>, "TXT"),
      DNSQuestion_new(<<65>>, "PTR") }

\* Longest name drawn from Alphabet.
MaxNameLen == 3

\* '.', 'A', 'Z', 'a', U+00E9 (two bytes of UTF-8) and U+0141 (two bytes of
\* UTF-8, low byte 0x41).
Alphabet == {46, 65, 90, 97, 233, 321}

\* Names with one long label of 'A's, then ".a".
LongLabelLens == {63, 65, 255, 256, 321}
LongNames == { [i \in 1..n |-> 65] \o <<46, 97>> : n \in LongLabelLens }

ShortNames == UNION { [1..n -> Alphabet] : n \in 0..MaxNameLen }

\* A name with the case of its ASCII letters at the positions of mask changed.
swap_ascii_case(chr) ==
    IF chr >= 65 /\ chr <= 90 THEN chr + 32
    ELSE IF chr >= 97 /\ chr <= 122 THEN chr - 32
    ELSE chr
Recase(name, mask) ==
    [ i \in 1..Len(name) |-> IF i \in mask THEN swap_ascii_case(name[i]) ELSE name[i] ]
CaseMasks(name) ==
    IF Len(name) <= MaxNameLen THEN SUBSET (1..Len(name))
    ELSE { {}, {1}, 1..Len(name) }

\* Most bytes an input slice carries past the 12 of the header.
MaxExcess == 2

\* 16-bit values: both ends, both bytes, and a value whose bytes differ.
IdSamples == {0, 255, 4884, 65535}
CountSamples == {0, 258, 65535}

\* Flags records of headers: parsed sample words (0x0000, 0x0100, 0x8480,
\* 0x8580, 0x7800, 0x000F, 0xFFBF) and two whose 4-bit fields overflow.
HeaderFlagsSamples ==
    { DNSFlags_from(w) : w \in {0, 256, 33920, 34176, 30720, 15, 65471} }
        \cup { [DNSFlags_default EXCEPT !.opcode = 16],
               [DNSFlags_default EXCEPT !.reply_code = 255] }

HeaderInputs ==
    { DNSHeader(id, f, qc, ac, auc, adc) :
        id \in IdSamples, f \in HeaderFlagsSamples, qc \in CountSamples,
        ac \in CountSamples, auc \in CountSamples, adc \in CountSamples }

\* Byte slices handed to DNSHeader::deserialize: every prefix of a few
\* 12-byte headers, and the headers followed by up to MaxExcess more bytes.
RawHeaders ==
    { <<19, 20, 0, 0, 0, 1, 0, 2, 0, 3, 0, 4>>,
      <<19, 20, 133, 128, 0, 1, 0, 1, 0, 0, 0, 0>>,
      <<1, 2, 3, 4, 5, 6, 7, 8, 9, 10, 11, 12>>,
      <<255, 255, 255, 255, 255, 255, 255, 255, 255, 255, 255, 255>>,
      <<0, 0, 0, 0, 0, 0, 0, 0, 0, 0, 0, 0>> }
ExcessBytes ==
    UNION { [1..n -> {0, 192, 255}] : n \in 1..MaxExcess }
SliceInputs ==
    { SubSeq(r, 1, k) : r \in RawHeaders, k \in 0..HEADER_SIZE }
        \cup { r \o e : r \in RawHeaders, e \in ExcessBytes }

\* Longest chain of codec calls applied to one input.
MaxSteps == 4

\* Every DNSFlags record whose opcode and reply_code fit in 4 bits, and
\* records whose opcode or reply_code use the high bits of the u8.
NibbleOverflow == {16, 31, 240, 255}
FlagsInputs ==
    [ is_response : BOOLEAN, opcode : (0..15) \cup NibbleOverflow,
      is_authoritative : BOOLEAN, is_truncated : BOOLEAN,
      recurse_desired : BOOLEAN, recurse_available : BOOLEAN,
      answer_authed : BOOLEAN, unauth_ok : BOOLEAN,
      reply_code : (0..15) \cup NibbleOverflow ]

\* Every 16-bit word.
WordInputs == 0..U16_MAX

----------------------------------------------------------------------------
(* The packet state, idle while a codec specification runs.                *)

PacketIdle ==
    /\ packet = <<>>
    /\ status = "running"
    /\ sent = <<>>
    /\ received = <<>>

Steps == Len(values) + Len(codes) - 1

\* The side the next codec call reads: the last value or the last code.
EncodeNext == Len(values) > Len(codes) \/ (origin = "code" /\ Len(values) = Len(codes))
DecodeNext == ~EncodeNext

----------------------------------------------------------------------------
(* Specification of the flags codec: an input record or word, then         *)
(* alternating DNSFlags::serialize and DNSFlags::from.                     *)

InitFlags ==
    /\ PacketIdle
    /\ \/ /\ origin = "value"
          /\ \E x \in FlagsInputs : values = <<x>>
          /\ codes = <<>>
       \/ /\ origin = "code"
          /\ values = <<>>
          /\ \E w \in WordInputs : codes = <<w>>

FlagsSerialize ==
    /\ Steps < MaxSteps
    /\ EncodeNext
    /\ codes' = Append(codes, DNSFlags_serialize(values[Len(values)]))
    /\ UNCHANGED <<packet, status, sent, received, origin, values>>

FlagsFrom ==
    /\ Steps < MaxSteps
    /\ DecodeNext
    /\ values' = Append(values, DNSFlags_from(codes[Len(codes)]))
    /\ UNCHANGED <<packet, status, sent, received, origin, codes>>

NextFlags == FlagsSerialize \/ FlagsFrom

SpecFlags == InitFlags /\ [][NextFlags]_vars

----------------------------------------------------------------------------
(* Specification of the header codec: an input header or byte slice, then  *)
(* alternating DNSHeader::serialize and DNSHeader::deserialize.  values    *)
(* holds Results: the header in hand is Ok(h), a failed parse is Err(e)    *)
(* and ends the chain.                                                     *)

InitHeader ==
    /\ PacketIdle
    /\ \/ /\ origin = "value"
          /\ \E h \in HeaderInputs : values = <<Ok(h)>>
          /\ codes = <<>>
       \/ /\ origin = "code"
          /\ values = <<>>
          /\ \E b \in SliceInputs : codes = <<b>>

HeaderSerialize ==
    /\ Steps < MaxSteps
    /\ EncodeNext
    /\ values[Len(values)].ok
    /\ codes' = Append(codes, DNSHeader_serialize(values[Len(values)].value))
    /\ UNCHANGED <<packet, status, sent, received, origin, values>>

HeaderDeserialize ==
    /\ Steps < MaxSteps
    /\ DecodeNext
    /\ values' = Append(values, DNSHeader_deserialize(codes[Len(codes)]))
    /\ UNCHANGED <<packet, status, sent, received, origin, codes>>

NextHeader == HeaderSerialize \/ HeaderDeserialize

SpecHeader == InitHeader /\ [][NextHeader]_vars

----------------------------------------------------------------------------
(* Specification of the label codec: two names that differ at most in the  *)
(* case of ASCII letters, then serialize_dns_str of the first and of the   *)
(* second.                                                                 *)

InitLabel ==
    /\ PacketIdle
    /\ origin = "value"
    /\ \/ \E name \in ShortNames : \E mask \in CaseMasks(name) :
                values = <<name, Recase(name, mask)>>
       \/ \E name \in LongNames : \E mask \in CaseMasks(name) :
                values = <<name, Recase(name, mask)>>
    /\ codes = <<>>

SerializeDnsStr ==
    /\ Len(codes) < Len(values)
    /\ codes' = Append(codes, serialize_dns_str(values[Len(codes) + 1]))
    /\ UNCHANGED <<packet, status, sent, received, origin, values>>

NextLabel == SerializeDnsStr

SpecLabel == InitLabel /\ [][NextLabel]_vars

----------------------------------------------------------------------------
(* Specification of the packet assembler: a packet made by new(), then     *)
(* add_question, serialize of the packet, and deserialize of a byte slice. *)

CodecIdle ==
    /\ origin = "none"
    /\ values = <<>>
    /\ codes = <<>>

Init ==
    /\ \E id \in PacketIds :
            packet = DNSPacket_new(id)
    /\ status = "running"
    /\ sent = <<>>
    /\ received = <<>>
    /\ CodecIdle

add_question(question) ==
    /\ status = "running"
    /\ \E o \in add_question_outcomes(packet, question) :
            /\ packet' = o.packet
            /\ status' = o.status
    /\ UNCHANGED <<sent, received, origin, values, codes>>

AddQuestion ==
    /\ Len(packet.questions) < MaxQuestions
    /\ \E question \in QuestionInputs : add_question(question)

Serialize ==
    /\ status = "running"
    /\ sent' = << [of |-> packet, bytes |-> DNSPacket_serialize(packet)] >>
    /\ UNCHANGED <<packet, status, received, origin, values, codes>>

\* The slices a caller hands to DNSPacket::deserialize: every prefix of the
\* start of a response (the header 0x1314, flags 0x8580, one question, one
\* answer, then the first bytes of the question), and every prefix of the
\* bytes serialize returned last.
ResponseStart == <<19, 20, 133, 128, 0, 1, 0, 1, 0, 0, 0, 0, 1, 97, 0, 0>>
PacketSliceInputs ==
    UNION { { SubSeq(b, 1, k) : k \in 0..Len(b) } :
            b \in {ResponseStart} \cup { sent[i].bytes : i \in 1..Len(sent) } }

\* DNSPacket::deserialize builds a packet of its own and touches nothing
\* else: one call per behaviour shows all there is to it.
Deserialize ==
    /\ status = "running"
    /\ received = <<>>
    /\ \E bytes \in PacketSliceInputs :
            received' = << [input |-> bytes, result |-> DNSPacket_deserialize(bytes)] >>
    /\ UNCHANGED <<packet, status, sent, origin, values, codes>>

Next == AddQuestion \/ Serialize \/ Deserialize

Spec == Init /\ [][Next]_vars

----------------------------------------------------------------------------
(* Specification of the packet assembler at the end of the u16 range: the  *)
(* packet new() made after NearLimit calls of add_question(FillerQuestion),*)
(* each of which found question_count below 65535, then add_question up to *)
(* the 65536th question.                                                   *)

NearLimit == U16_MAX - 2

FillerQuestion == DNSQuestion_new(<<>>, "A")

InitNearLimit ==
    /\ \E id \in PacketIds :
            packet = DNSPacket(DNSHeader(id, DNSFlags_default, NearLimit, 0, 0, 0),
                               [ i \in 1..NearLimit |-> FillerQuestion ])
    /\ status = "running"
    /\ sent = <<>>
    /\ received = <<>>
    /\ CodecIdle

AddQuestionNearLimit ==
    /\ Len(packet.questions) <= U16_MAX
    /\ \E question \in QuestionInputs : add_question(question)

NextNearLimit == AddQuestionNearLimit

SpecNearLimit == InitNearLimit /\ [][NextNearLimit]_vars

----------------------------------------------------------------------------
(* Claims about the flags and header codecs.                               *)

\* The calls made so far, as <<argument, result>> pairs.
EncodeCalls ==
    { <<values[i], codes[i + (IF origin = "value" THEN 0 ELSE 1)]>> :
        i \in { j \in 1..Len(values) : j + (IF origin = "value" THEN 0 ELSE 1) <= Len(codes) } }
DecodeCalls ==
    { <<codes[i], values[i + (IF origin = "code" THEN 0 ELSE 1)]>> :
        i \in { j \in 1..Len(codes) : j + (IF origin = "code" THEN 0 ELSE 1) <= Len(values) } }

FitsNibble(n) == n \in 0..15

Bit(w, k) == (w \div 2^k) % 2

\* C1: a flags record whose opcode and reply_code are both in 0..15, serialized
\* and parsed back, comes back equal field for field.
C1_FlagsRoundTrip ==
    \A i \in 1..(Len(values) - 1) :
        (FitsNibble(values[i].opcode) /\ FitsNibble(values[i].reply_code))
            => values[i + 1] = values[i]

\* C1 witness: a record with every boolean set and both 4-bit fields at 15 has
\* been serialized and parsed back.
C1_Witness ==
    /\ origin = "value"
    /\ Len(values) >= 2
    /\ values[1] = [ is_response |-> TRUE, opcode |-> 15, is_authoritative |-> TRUE,
                     is_truncated |-> TRUE, recurse_desired |-> TRUE,
                     recurse_available |-> TRUE, answer_authed |-> TRUE,
                     unauth_ok |-> TRUE, reply_code |-> 15 ]

\* C9: serialize places the low 4 bits of opcode at bits 14..11 and the low 4
\* bits of reply_code at bits 3..0, each boolean at its own bit, nothing else:
\* the high bits of opcode and reply_code reach no bit, and bit 6 is zero.
C9_SerializeMasks ==
    \A c \in EncodeCalls :
        LET x == c[1]
            w == c[2]
        IN  /\ w = 32768 * BoolAsU16(x.is_response)
                   + 2048 * (x.opcode % 16)
                   + 1024 * BoolAsU16(x.is_authoritative)
                   + 512 * BoolAsU16(x.is_truncated)
                   + 256 * BoolAsU16(x.recurse_desired)
                   + 128 * BoolAsU16(x.recurse_available)
                   + 32 * BoolAsU16(x.answer_authed)
                   + 16 * BoolAsU16(x.unauth_ok)
                   + (x.reply_code % 16)
            /\ Bit(w, 6) = 0

\* C9 witness: a record whose opcode and reply_code both use their high bits,
\* with is_response clear, has been serialized.
C9_Witness ==
    \E c \in EncodeCalls :
        /\ c[1].opcode = 255
        /\ c[1].reply_code = 240
        /\ ~c[1].is_response

\* C10: parsing a 16-bit word and serializing the record gives the word with
\* bit 6 cleared, so doing it twice gives what doing it once gives.
C10_ReverseRoundTrip ==
    /\ \A i \in 1..(Len(codes) - 1) : codes[i + 1] = codes[i] - 64 * Bit(codes[i], 6)
    /\ \A i \in 1..(Len(codes) - 2) : codes[i + 2] = codes[i + 1]

\* C10 witness: the word 0xFFFF has been parsed and serialized again, twice.
C10_Witness ==
    /\ origin = "code"
    /\ Len(codes) >= 3
    /\ codes[1] = 65535

\* C2: a header whose flags have opcode and reply_code in 0..15, serialized
\* and deserialized, parses successfully to a header with the same id, flags
\* and four counts.
C2_HeaderRoundTrip ==
    \A i \in 1..(Len(values) - 1) :
        LET h == values[i].value
            r == values[i + 1]
        IN  (values[i].ok /\ FitsNibble(h.flags.opcode) /\ FitsNibble(h.flags.reply_code))
                => /\ r.ok
                   /\ r.value.id = h.id
                   /\ r.value.flags = h.flags
                   /\ r.value.question_count = h.question_count
                   /\ r.value.answer_count = h.answer_count
                   /\ r.value.authority_count = h.authority_count
                   /\ r.value.additional_count = h.additional_count

\* C2 witness: a header with six different field values, the flags of 0x8580,
\* has been serialized and deserialized.
C2_Witness ==
    /\ origin = "value"
    /\ Len(values) >= 2
    /\ values[1].value.id = 4884
    /\ values[1].value.flags = DNSFlags_from(34176)
    /\ values[1].value.question_count = 258
    /\ values[1].value.answer_count = 0
    /\ values[1].value.authority_count = 65535
    /\ values[1].value.additional_count = 258

\* C5: DNSHeader::deserialize fails exactly on slices shorter than 12 bytes;
\* on 12 bytes or more it returns the six big-endian 16-bit fields of the
\* first 12 bytes (the flags word parsed by DNSFlags::from), whatever follows.
C5_DeserializeLength ==
    \A c \in DecodeCalls :
        LET b == c[1]
            r == c[2]
        IN  /\ r.ok <=> Len(b) >= 12
            /\ r.ok =>
                /\ r.value.id = b[1] * 256 + b[2]
                /\ r.value.flags = DNSFlags_from(b[3] * 256 + b[4])
                /\ r.value.question_count = b[5] * 256 + b[6]
                /\ r.value.answer_count = b[7] * 256 + b[8]
                /\ r.value.authority_count = b[9] * 256 + b[10]
                /\ r.value.additional_count = b[11] * 256 + b[12]

\* C5 witness: a slice of more than 12 bytes has been deserialized.
C5_Witness ==
    /\ origin = "code"
    /\ Len(values) >= 1
    /\ Len(codes[1]) > 12
    /\ codes[1][1] = 19

----------------------------------------------------------------------------
(* Claims about the label codec.                                           *)

RECURSIVE SumTo(_, _)
\* f[1] + ... + f[n]
SumTo(f, n) == IF n = 0 THEN 0 ELSE f[n] + SumTo(f, n - 1)

\* The bytes serialize_dns_str emits for a label: one per char.
Emitted(label) == Len(label)

\* Where label i of the name starts in the output: after the prefix byte and
\* the emitted bytes of every label before it.
LabelStart(labels, i) == 1 + SumTo([j \in 1..Len(labels) |-> 1 + Emitted(labels[j])], i - 1)

\* The length formula, the prefix bytes and the terminator of C7, for one call.
LabelLayout(name, out) ==
    LET labels == split(name)
        n == Len(labels)
    IN  /\ Len(out) = SumTo([j \in 1..n |-> str_len(labels[j])], n) + n + 1
        /\ \A i \in 1..n :
                /\ LabelStart(labels, i) <= Len(out)
                /\ out[LabelStart(labels, i)] = Emitted(labels[i])
        /\ LabelStart(labels, n + 1) = Len(out)
        /\ out[Len(out)] = 0

\* No byte 0x41..0x5A among the bytes emitted for the chars of the labels.
NoUpperInBodies(name, out) ==
    LET labels == split(name)
    IN  \A i \in 1..Len(labels) : \A k \in 1..Emitted(labels[i]) :
            LET at == LabelStart(labels, i) + k
            IN  at <= Len(out) => out[at] \notin 65..90

IsAscii(name) == \A i \in 1..Len(name) : name[i] < 128
ShortLabels(name) == \A i \in 1..Len(split(name)) : str_len(split(name)[i]) <= 255

\* C7 as claimed: for every name, the output is (sum of the labels' byte
\* lengths) + (number of labels) + 1 bytes long, each label's prefix byte is
\* the number of bytes emitted for it, and the output ends with one 0x00.
C7_LabelLayout_AnyName ==
    \A c \in EncodeCalls : LabelLayout(c[1], c[2])

\* C7 amended: the same, for every name of ASCII chars only whose labels are
\* each at most 255 bytes long.
C7_LabelLayout_Ascii ==
    \A c \in EncodeCalls : (IsAscii(c[1]) /\ ShortLabels(c[1])) => LabelLayout(c[1], c[2])

\* C7, for names of ASCII chars with labels of any length: violated by a label
\* of 256 bytes, whose prefix byte is 256 as u8 = 0.
C7_LabelLayout_AsciiAnyLength ==
    \A c \in EncodeCalls : IsAscii(c[1]) => LabelLayout(c[1], c[2])

\* C7 witness: the ASCII name "a.A" has been encoded as 01 61 01 61 00.
C7_Witness ==
    /\ Len(codes) = 2
    /\ values[1] = <<97, 46, 65>>
    /\ codes[1] = <<1, 97, 1, 97, 0>>

\* C8 as claimed: two names that differ only in the case of ASCII letters
\* encode to the same bytes, and no byte 0x41..0x5A is in a label body.
C8_CaseFolding_AnyName ==
    /\ Len(codes) = 2 => codes[1] = codes[2]
    /\ \A c \in EncodeCalls : NoUpperInBodies(c[1], c[2])

\* C8 amended: two names that differ only in the case of ASCII letters encode
\* to the same bytes; and for a name of ASCII chars only, no byte 0x41..0x5A
\* is among the bytes emitted for the chars of its labels.
C8_CaseFolding_Ascii ==
    /\ Len(codes) = 2 => codes[1] = codes[2]
    /\ \A c \in EncodeCalls : IsAscii(c[1]) => NoUpperInBodies(c[1], c[2])

\* C8 witness: "A.Z" and "a.z" have both been encoded.
C8_Witness ==
    /\ Len(codes) = 2
    /\ values[1] = <<65, 46, 90>>
    /\ values[2] = <<97, 46, 122>>

----------------------------------------------------------------------------
(* Claims about the packet assembler.                                      *)

\* C3: after any number N of add_question calls on a packet made by new(),
\* header.question_count is N, the number of stored questions; and each call
\* that returns has incremented question_count by exactly one.
C3_QuestionCount ==
    status = "running" => packet.header.question_count = Len(packet.questions)

\* Where question i starts in the bytes serialize returned, lens being the
\* lengths of the questions' serializations: after the 12 bytes of the header
\* and the bytes of every question before it.
QuestionStart(lens, i) == 12 + SumTo(lens, i - 1)

\* C4: serialize returns the 12 bytes of header.serialize(), then the bytes of
\* q1.serialize(), ..., qN.serialize() in insertion order, and nothing else.
C4_PacketLayout ==
    \A k \in 1..Len(sent) :
        LET p == sent[k].of
            out == sent[k].bytes
            n == Len(p.questions)
            qs == [ j \in 1..n |-> DNSQuestion_serialize(p.questions[j]) ]
            lens == [ j \in 1..n |-> Len(qs[j]) ]
        IN  /\ Len(DNSHeader_serialize(p.header)) = 12
            /\ SubSeq(out, 1, 12) = DNSHeader_serialize(p.header)
            /\ \A i \in 1..n :
                    SubSeq(out, QuestionStart(lens, i) + 1, QuestionStart(lens, i + 1)) = qs[i]
            /\ Len(out) = QuestionStart(lens, n + 1)

\* C4 witness: a packet holding "a.Z" A, then "" TXT, then "A" PTR has been
\* serialized.
C4_Witness ==
    /\ Len(sent) = 1
    /\ sent[1].of.questions =
            << DNSQuestion_new(<<97, 46, 90>>, "A"), DNSQuestion_new(<<>>, "TXT"),
               DNSQuestion_new(<<65>>, "PTR") >>

\* C6: on a slice shorter than 12 bytes DNSPacket::deserialize returns the
\* error DNSHeader::deserialize returns for that slice, which carries the
\* expected byte count 12 and the actual byte count.
C6_ShortHeaderPropagated ==
    \A k \in 1..Len(received) :
        Len(received[k].input) < 12 =>
            /\ received[k].result = DNSHeader_deserialize(received[k].input)
            /\ received[k].result.error.args = <<12, Len(received[k].input)>>

====
